---- MODULE Spec2Model ----
(***************************************************************************)
(* Transactional inventory ledger of the mystock backend: sales and        *)
(* purchases against contacts, stock positions per (product, container),   *)
(* the inventory log, payments and the soft-delete reversal.               *)
(*                                                                         *)
(* Money is counted in whole currency units (the code uses exact Decimal   *)
(* arithmetic).  A NULL column is 0: ids and timestamps start at 1.        *)
(***************************************************************************)
EXTENDS Integers, Sequences, FiniteSets, TLC

VARIABLES
    db,       \* the committed database: one field per table
    last,     \* the last request handled and how it ended
    pending   \* per worker: the unit-of-work that has read but not yet written

vars == <<db, last, pending>>

(***************************************************************************)
(* Bounds of the model.                                                    *)
(***************************************************************************)
MaxTx == 2

MaxPayments == 2

NULL == 0

\* Python's None for a text or enum field
None == "none"

ProductIds == {1, 2}

ContainerIds == {1, 2}

ContactIds == {1, 2, 3, 4}

Pairs == ProductIds \X ContainerIds

Workers == {1, 2}

(***************************************************************************)
(* Sequence helpers.                                                       *)
(***************************************************************************)
RECURSIVE SumSeq(_)
SumSeq(s) == IF s = <<>> THEN 0 ELSE Head(s) + SumSeq(Tail(s))

Indices(s) == 1..Len(s)

(***************************************************************************)
(* Transaction numbers: f"{prefix}-{new_number:04d}" and its parse         *)
(* int(transaction_number.split("-")[1]).  A number is the prefix and the  *)
(* decimal digits after the dash.                                          *)
(***************************************************************************)
RECURSIVE Digits(_)
Digits(n) == IF n < 10 THEN <<n>> ELSE Append(Digits(n \div 10), n % 10)

RECURSIVE ZeroPad(_, _)
ZeroPad(ds, width) == IF Len(ds) >= width THEN ds ELSE ZeroPad(<<0>> \o ds, width)

FormatNumber(prefix, n) == [prefix |-> prefix, digits |-> ZeroPad(Digits(n), 4)]

RECURSIVE DigitsValue(_)
DigitsValue(ds) ==
    IF ds = <<>> THEN 0 ELSE 10 * DigitsValue(SubSeq(ds, 1, Len(ds) - 1)) + ds[Len(ds)]

ParseNumber(tn) == DigitsValue(tn.digits)

Prefix(type) == IF type = "sale" THEN "SALE" ELSE "PUR"

\* a generator that would look at the live transactions of the type only
GenerateFromLive(d, type) ==
    LET same == {i \in Indices(d.transactions) :
                    d.transactions[i].type = type /\ d.transactions[i].deleted_at = 0}
    IN  IF same = {}
        THEN FormatNumber(Prefix(type), 1)
        ELSE LET lastId == CHOOSE i \in same : \A j \in same : j <= i
             IN  FormatNumber(Prefix(type),
                              ParseNumber(d.transactions[lastId].transaction_number) + 1)

\* the last transaction of the type by id (soft-deleted rows included) plus one
GenerateTransactionNumber(d, type) ==
    LET same == {i \in Indices(d.transactions) : d.transactions[i].type = type}
    IN  IF same = {}
        THEN FormatNumber(Prefix(type), 1)
        ELSE LET lastId == CHOOSE i \in same : \A j \in same : j <= i
             IN  FormatNumber(Prefix(type),
                              ParseNumber(d.transactions[lastId].transaction_number) + 1)

(***************************************************************************)
(* Rows.                                                                   *)
(***************************************************************************)
AbsentPosition == [present |-> FALSE, quantity |-> 0, deleted_at |-> NULL]

Live(row) == row.deleted_at = NULL

\* seeded fault: the balance primitive does nothing
BalanceUntouched(contact, amount) == contact

\* Contact.balance += amount
update_balance(contact, amount) == [contact EXCEPT !.balance = @ + amount]

(***************************************************************************)
(* The write set of one unit-of-work: the rows the session has added and   *)
(* the loaded rows it has changed in memory.  Changed rows are written     *)
(* back with the values computed from what the session read.               *)
(***************************************************************************)
EmptyWriteSet ==
    [transactions |-> <<>>, items |-> <<>>, logs |-> <<>>, payments |-> <<>>,
     cp |-> [k \in {} |-> AbsentPosition], cp_new |-> {},
     contact_id |-> NULL, balance |-> 0]

\* unique indexes idx_transaction_number and idx_container_product_unique
\* seeded fault: the unique indexes are dropped
NoUniqueIndex(d, ws) == FALSE

UniqueViolation(d, ws) ==
    \/ \E i \in Indices(d.transactions), j \in Indices(ws.transactions) :
            d.transactions[i].transaction_number = ws.transactions[j].transaction_number
    \/ \E k \in ws.cp_new : d.container_product[k].present

\* flush: INSERT the new rows (ids are assigned here), UPDATE the changed ones
Flushed(d, ws) ==
    LET tid == Len(d.transactions) + 1
    IN  [d EXCEPT
          !.transactions = @ \o ws.transactions,
          !.transaction_items = @ \o [i \in Indices(ws.items) |->
                                        [ws.items[i] EXCEPT !.transaction_id = tid]],
          !.inventory_logs = @ \o ws.logs,
          !.payments = @ \o [i \in Indices(ws.payments) |->
                                [ws.payments[i] EXCEPT !.transaction_id = tid]],
          !.container_product = [k \in Pairs |->
                                   IF k \in DOMAIN ws.cp THEN ws.cp[k] ELSE @[k]],
          !.contacts = IF ws.contact_id = NULL THEN @
                       ELSE [@ EXCEPT ![ws.contact_id].balance = ws.balance]]

Failure(kind, stage, ws) == [result |-> kind, stage |-> stage, ws |-> ws]

(***************************************************************************)
(* Validation helpers of the collaborating services.                       *)
(***************************************************************************)
ContactFound(d, contact_id) ==
    contact_id \in DOMAIN d.contacts /\ Live(d.contacts[contact_id])

\* ContactsService.validate_for_sale: "ok" or the error raised
validate_for_sale(d, contact_id) ==
    IF ~ContactFound(d, contact_id) THEN "NotFoundError"
    ELSE IF d.contacts[contact_id].type \notin {"customer", "both"} THEN "ValidationError"
    ELSE "ok"

\* ContactsService.validate_for_purchase
validate_for_purchase(d, contact_id) ==
    IF ~ContactFound(d, contact_id) THEN "NotFoundError"
    ELSE IF d.contacts[contact_id].type \notin {"supplier", "both"} THEN "ValidationError"
    ELSE "ok"

ItemProducts(items) == {items[i].product_id : i \in Indices(items)}

ItemPairs(items) == {<<items[i].product_id, items[i].container_id>> : i \in Indices(items)}

\* ProductService.validate_products_exist: the ids reported missing
MissingProducts(d, product_ids) ==
    product_ids \ {p \in DOMAIN d.products : Live(d.products[p])}

\* ContainerProductService.validate_and_get_stock: the rows fetched (soft-deleted
\* rows are fetched too: the query has no deleted_at filter)
FetchedPositions(d, pairs) == {k \in pairs : k \in Pairs /\ d.container_product[k].present}

validate_and_get_stock(d, pairs) ==
    IF Cardinality(FetchedPositions(d, pairs)) # Cardinality(pairs)
    THEN "ValidationError" ELSE "ok"

Subtotal(items) == SumSeq([i \in Indices(items) |-> items[i].quantity * items[i].unit_price])

TotalAmount(req) == Subtotal(req.items) + req.tax_amount - req.discount_amount

\* payment status as decided on creation
CreationStatus(paid_amount, total_amount) ==
    IF paid_amount = 0 THEN "unpaid"
    ELSE IF paid_amount >= total_amount THEN "paid"
    ELSE "partial"

\* payment status as re-derived after a payment changes
RecalculatedStatus(paid_amount, total_amount) ==
    IF paid_amount >= total_amount THEN "paid"
    ELSE IF paid_amount > 0 THEN "partial"
    ELSE "unpaid"

NewTransaction(d, type, req) ==
    [transaction_number |-> GenerateTransactionNumber(d, type),
     type |-> type,
     contact_id |-> req.contact_id,
     subtotal |-> Subtotal(req.items),
     tax_amount |-> req.tax_amount,
     discount_amount |-> req.discount_amount,
     total_amount |-> TotalAmount(req),
     paid_amount |-> req.paid_amount,
     payment_status |-> CreationStatus(req.paid_amount, TotalAmount(req)),
     deleted_at |-> NULL]

NewItem(item) ==
    [transaction_id |-> NULL,
     product_id |-> item.product_id,
     container_id |-> item.container_id,
     quantity |-> item.quantity,
     unit_price |-> item.unit_price,
     line_total |-> item.quantity * item.unit_price,
     deleted_at |-> NULL]

NewPayment(amount, method) ==
    [transaction_id |-> NULL, amount |-> amount, payment_method |-> method,
     deleted_at |-> NULL]

NewLog(item, action, quantity, kind, number, old, new) ==
    [product_id |-> item.product_id,
     container_id |-> item.container_id,
     action |-> action,
     quantity |-> quantity,
     note |-> [kind |-> kind, number |-> number, old |-> old, new |-> new]]

(***************************************************************************)
(* TransactionsService.create_sale, up to the commit.                      *)
(***************************************************************************)
\* STEP 7 of create_sale for the lines from index i on: deduct in memory from the
\* pre-fetched rows and write one log per line
RECURSIVE SaleLines(_, _, _, _)
SaleLines(acc, items, i, number) ==
    IF i > Len(items) THEN acc
    ELSE LET item == items[i]
             key == <<item.product_id, item.container_id>>
             old_qty == acc.cp[key].quantity
             new_qty == old_qty - item.quantity
         IN  SaleLines(
                 [cp |-> [acc.cp EXCEPT ![key].quantity = new_qty],
                  logs |-> Append(acc.logs,
                                  NewLog(item, "sale", -item.quantity, "Sale", number,
                                         old_qty, new_qty))],
                 items, i + 1, number)

\* the stock check on the pre-fetched rows (no row is changed yet)
\* seeded fault: the per-line stock check is skipped
NoStockCheck(d, items) == FALSE

InsufficientStock(d, items) ==
    \E i \in Indices(items) :
        d.container_product[<<items[i].product_id, items[i].container_id>>].quantity
            < items[i].quantity

\* a balance change that would forget the amount paid on creation
SaleBalanceIsTotal(total_amount, paid_amount) == total_amount

\* balance_change = total_amount - sale_data.paid_amount
SaleBalanceChange(total_amount, paid_amount) == total_amount - paid_amount

SaleWrites(d, req) ==
    LET trx == NewTransaction(d, "sale", req)
        fetched == FetchedPositions(d, ItemPairs(req.items))
        lines == SaleLines([cp |-> [k \in fetched |-> d.container_product[k]],
                            logs |-> <<>>],
                           req.items, 1, trx.transaction_number)
        balance_change == SaleBalanceChange(trx.total_amount, req.paid_amount)
    IN  [transactions |-> <<trx>>,
         items |-> [i \in Indices(req.items) |-> NewItem(req.items[i])],
         logs |-> lines.logs,
         payments |-> <<>>,
         cp |-> lines.cp,
         cp_new |-> {},
         contact_id |-> IF balance_change > 0 THEN req.contact_id ELSE NULL,
         balance |-> IF balance_change > 0
                     THEN update_balance(d.contacts[req.contact_id], balance_change).balance
                     ELSE 0]

create_sale(d, req) ==
    IF validate_for_sale(d, req.contact_id) # "ok"
    THEN Failure(validate_for_sale(d, req.contact_id), "contact", EmptyWriteSet)
    ELSE IF MissingProducts(d, ItemProducts(req.items)) # {}
    THEN Failure("NotFoundError", "products", EmptyWriteSet)
    ELSE IF \E i \in Indices(req.items) : req.items[i].container_id = NULL
    THEN Failure("ValidationError", "container_id", EmptyWriteSet)
    ELSE IF validate_and_get_stock(d, ItemPairs(req.items)) # "ok"
    THEN Failure("ValidationError", "stock_lookup", EmptyWriteSet)
    ELSE IF InsufficientStock(d, req.items)
    THEN Failure("ValidationError", "stock", EmptyWriteSet)
    ELSE IF req.paid_amount > TotalAmount(req)
    THEN Failure("ValidationError", "paid_amount", EmptyWriteSet)
    ELSE IF req.paid_amount > 0 /\ req.payment_method = None
    THEN Failure("ValidationError", "payment_method", SaleWrites(d, req))
    ELSE [result |-> "ok", stage |-> "done",
          ws |-> [SaleWrites(d, req) EXCEPT
                    !.payments = IF req.paid_amount > 0
                                 THEN <<NewPayment(req.paid_amount, req.payment_method)>>
                                 ELSE <<>>]]

(***************************************************************************)
(* TransactionsService.create_purchase, up to the commit.                  *)
(***************************************************************************)
\* STEP 7 of create_purchase for the lines from index i on: add to the fetched
\* row, or create the row when the pair has none
RECURSIVE PurchaseLines(_, _, _, _)
PurchaseLines(acc, items, i, number) ==
    IF i > Len(items) THEN acc
    ELSE LET item == items[i]
             key == <<item.product_id, item.container_id>>
             exists == key \in DOMAIN acc.cp
             old_qty == IF exists THEN acc.cp[key].quantity ELSE 0
             new_qty == IF exists THEN acc.cp[key].quantity + item.quantity
                        ELSE item.quantity
             row == IF exists THEN [acc.cp[key] EXCEPT !.quantity = new_qty]
                    ELSE [present |-> TRUE, quantity |-> item.quantity,
                          deleted_at |-> NULL]
         IN  PurchaseLines(
                 [cp |-> [k \in DOMAIN acc.cp \cup {key} |->
                            IF k = key THEN row ELSE acc.cp[k]],
                  cp_new |-> IF exists THEN acc.cp_new ELSE acc.cp_new \cup {key},
                  logs |-> Append(acc.logs,
                                  NewLog(item, "purchase", item.quantity, "Purchase",
                                         number, old_qty, new_qty))],
                 items, i + 1, number)

PurchaseWrites(d, req) ==
    LET trx == NewTransaction(d, "purchase", req)
        fetched == FetchedPositions(d, ItemPairs(req.items))
        lines == PurchaseLines([cp |-> [k \in fetched |-> d.container_product[k]],
                                cp_new |-> {},
                                logs |-> <<>>],
                               req.items, 1, trx.transaction_number)
        balance_change == -(trx.total_amount - req.paid_amount)
    IN  [transactions |-> <<trx>>,
         items |-> [i \in Indices(req.items) |-> NewItem(req.items[i])],
         logs |-> lines.logs,
         payments |-> <<>>,
         cp |-> lines.cp,
         cp_new |-> lines.cp_new,
         contact_id |-> IF balance_change # 0 THEN req.contact_id ELSE NULL,
         balance |-> IF balance_change # 0
                     THEN update_balance(d.contacts[req.contact_id], balance_change).balance
                     ELSE 0]

create_purchase(d, req) ==
    IF validate_for_purchase(d, req.contact_id) # "ok"
    THEN Failure(validate_for_purchase(d, req.contact_id), "contact", EmptyWriteSet)
    ELSE IF MissingProducts(d, ItemProducts(req.items)) # {}
    THEN Failure("NotFoundError", "products", EmptyWriteSet)
    ELSE IF \E i \in Indices(req.items) : req.items[i].container_id = NULL
    THEN Failure("ValidationError", "container_id", EmptyWriteSet)
    ELSE IF req.paid_amount > TotalAmount(req)
    THEN Failure("ValidationError", "paid_amount", EmptyWriteSet)
    ELSE IF req.paid_amount > 0 /\ req.payment_method = None
    THEN Failure("ValidationError", "payment_method", PurchaseWrites(d, req))
    ELSE [result |-> "ok", stage |-> "done",
          ws |-> [PurchaseWrites(d, req) EXCEPT
                    !.payments = IF req.paid_amount > 0
                                 THEN <<NewPayment(req.paid_amount, req.payment_method)>>
                                 ELSE <<>>]]

(***************************************************************************)
(* get_db_util: the request's unit-of-work.  The handler runs on the       *)
(* session; its writes are committed when it returns and rolled back when  *)
(* it raises.                                                              *)
(***************************************************************************)
\* seeded fault: the session is committed whatever the handler raised
CommitAlways(d, result, session) == session

get_db_util(d, result, session) == IF result = "ok" THEN session ELSE d

\* the outcome of a creation handler run against d and flushed into d
CreationResult(d, unit) ==
    IF unit.ws.transactions # <<>> /\ UniqueViolation(d, unit.ws) THEN "IntegrityError"
    ELSE unit.result

(***************************************************************************)
(* TransactionsService.delete_transaction.                                 *)
(***************************************************************************)
ItemsOf(d, transaction_id) ==
    {i \in Indices(d.transaction_items) :
        d.transaction_items[i].transaction_id = transaction_id}

PaymentsOf(d, transaction_id) ==
    {i \in Indices(d.payments) : d.payments[i].transaction_id = transaction_id}

\* a lookup that would not filter on deleted_at
TransactionExists(d, transaction_id) == transaction_id \in Indices(d.transactions)

TransactionFound(d, transaction_id) ==
    transaction_id \in Indices(d.transactions) /\ Live(d.transactions[transaction_id])

\* STEP 2 of delete_transaction for the items from id i on, in id order
RECURSIVE ReverseInventory(_, _, _, _)
ReverseInventory(cp, d, transaction_id, i) ==
    IF i > Len(d.transaction_items) THEN cp
    ELSE LET item == d.transaction_items[i]
             key == <<item.product_id, item.container_id>>
         IN  IF item.transaction_id # transaction_id
                \/ item.container_id = NULL
                \/ ~cp[key].present
             THEN ReverseInventory(cp, d, transaction_id, i + 1)
             ELSE ReverseInventory(
                      [cp EXCEPT ![key].quantity =
                          IF d.transactions[transaction_id].type = "sale"
                          THEN @ + item.quantity
                          ELSE @ - item.quantity],
                      d, transaction_id, i + 1)

\* seeded fault: the balance is reversed as if every transaction were a sale
ReverseBalanceAsSale(d, transaction_id) ==
    LET trx == d.transactions[transaction_id]
        balance_to_reverse == trx.total_amount - trx.paid_amount
    IN  IF balance_to_reverse > 0
        THEN [d.contacts EXCEPT ![trx.contact_id] =
                 update_balance(@, -balance_to_reverse)]
        ELSE d.contacts

\* seeded fault: the whole total is reversed, whatever has been paid since
ReverseTotal(d, transaction_id) ==
    LET trx == d.transactions[transaction_id]
        balance_to_reverse == trx.total_amount
    IN  IF balance_to_reverse > 0
        THEN [d.contacts EXCEPT ![trx.contact_id] =
                 update_balance(@, IF trx.type = "sale" THEN -balance_to_reverse
                                   ELSE balance_to_reverse)]
        ELSE d.contacts

ReverseBalance(d, transaction_id) ==
    LET trx == d.transactions[transaction_id]
        balance_to_reverse == trx.total_amount - trx.paid_amount
    IN  IF balance_to_reverse > 0
        THEN [d.contacts EXCEPT ![trx.contact_id] =
                 update_balance(@, IF trx.type = "sale" THEN -balance_to_reverse
                                   ELSE balance_to_reverse)]
        ELSE d.contacts

\* seeded fault: the rows are left as they were
NotSoftDeleted(rows, ids, now) == rows

\* deleted_at = now on each of the rows
SoftDeleted(rows, ids, now) ==
    [i \in Indices(rows) |-> IF i \in ids THEN [rows[i] EXCEPT !.deleted_at = now]
                             ELSE rows[i]]

delete_transaction(d, transaction_id) ==
    IF ~TransactionFound(d, transaction_id)
    THEN [result |-> "NotFoundError", stage |-> "transaction", session |-> d]
    ELSE LET now == d.clock + 1
         IN  [result |-> "ok", stage |-> "done",
              session |->
                [d EXCEPT
                  !.container_product = ReverseInventory(@, d, transaction_id, 1),
                  !.contacts = ReverseBalance(d, transaction_id),
                  !.transactions[transaction_id].deleted_at = now,
                  !.transaction_items = SoftDeleted(@, ItemsOf(d, transaction_id), now),
                  !.payments = SoftDeleted(@, PaymentsOf(d, transaction_id), now),
                  !.clock = now]]

(***************************************************************************)
(* TransactionsService.record_payment.                                     *)
(***************************************************************************)
\* seeded fault: the remaining balance forgets what was already paid
RemainingIsTotal(trx) == trx.total_amount

\* remaining_balance = transaction.total_amount - transaction.paid_amount
RemainingBalance(trx) == trx.total_amount - trx.paid_amount

\* seeded fault: every payment is booked as if received from a customer
PaymentBalanceAsSale(type, amount) == -amount

\* a payment on a sale lowers the receivable, one on a purchase the payable
PaymentBalanceChange(type, amount) == IF type = "sale" THEN -amount ELSE amount

record_payment(d, transaction_id, amount, method) ==
    IF ~TransactionFound(d, transaction_id)
    THEN [result |-> "NotFoundError", stage |-> "transaction", session |-> d]
    ELSE LET trx == d.transactions[transaction_id]
             remaining_balance == RemainingBalance(trx)
             paid == trx.paid_amount + amount
         IN  IF remaining_balance <= 0
             THEN [result |-> "ValidationError", stage |-> "fully_paid", session |-> d]
             ELSE IF amount <= 0
             THEN [result |-> "ValidationError", stage |-> "amount", session |-> d]
             ELSE IF amount > remaining_balance
             THEN [result |-> "ValidationError", stage |-> "exceeds", session |-> d]
             ELSE [result |-> "ok", stage |-> "done",
                   session |->
                     [d EXCEPT
                       !.payments = Append(@, [NewPayment(amount, method) EXCEPT
                                                 !.transaction_id = transaction_id]),
                       !.transactions[transaction_id].paid_amount = paid,
                       !.transactions[transaction_id].payment_status =
                           RecalculatedStatus(paid, trx.total_amount),
                       !.contacts[trx.contact_id] =
                           update_balance(@, PaymentBalanceChange(trx.type, amount))]]

(***************************************************************************)
(* PaymentsService: create, update, remove.                                *)
(***************************************************************************)
PaymentFound(d, payment_id) ==
    payment_id \in Indices(d.payments) /\ Live(d.payments[payment_id])

\* select(func.sum(Payment.amount)) over the non-deleted payments of a transaction
TotalPaid(payments, transaction_id) ==
    SumSeq([i \in Indices(payments) |->
              IF payments[i].transaction_id = transaction_id /\ Live(payments[i])
              THEN payments[i].amount ELSE 0])

\* paid_amount and payment_status of one transaction set together
WithPaid(transactions, transaction_id, paid) ==
    [transactions EXCEPT
       ![transaction_id].paid_amount = paid,
       ![transaction_id].payment_status =
           RecalculatedStatus(paid, transactions[transaction_id].total_amount)]

payments_create(d, dto) ==
    IF dto.transaction_id # NULL /\ ~TransactionFound(d, dto.transaction_id)
    THEN [result |-> "NotFoundError", stage |-> "transaction", session |-> d]
    ELSE IF dto.transaction_id = NULL
            /\ (dto.description = None \/ dto.category = None \/ dto.type = None)
    THEN [result |-> "ValidationError", stage |-> "manual_fields", session |-> d]
    ELSE IF dto.contact_id # NULL /\ ~ContactFound(d, dto.contact_id)
    THEN [result |-> "NotFoundError", stage |-> "contact", session |-> d]
    ELSE LET added == Append(d.payments,
                             [NewPayment(dto.amount, dto.payment_method) EXCEPT
                                !.transaction_id = dto.transaction_id])
         IN  [result |-> "ok", stage |-> "done",
              session |->
                [d EXCEPT
                  !.payments = added,
                  !.transactions =
                      IF dto.transaction_id = NULL THEN @
                      ELSE WithPaid(@, dto.transaction_id,
                                    @[dto.transaction_id].paid_amount + dto.amount)]]

\* update_data: the fields the request sets (exclude_unset) and their values
payments_update(d, payment_id, update_data) ==
    IF update_data.fields = {}
    THEN [result |-> IF PaymentFound(d, payment_id) THEN "ok" ELSE "NotFoundError",
          stage |-> "find_one", session |-> d]
    ELSE IF "transaction_id" \in update_data.fields
            /\ update_data.transaction_id # NULL
            /\ ~TransactionFound(d, update_data.transaction_id)
    THEN [result |-> "NotFoundError", stage |-> "transaction", session |-> d]
    ELSE IF ~PaymentFound(d, payment_id)
    THEN [result |-> "NotFoundError", stage |-> "payment", session |-> d]
    ELSE LET old_transaction_id == d.payments[payment_id].transaction_id
             old_amount == d.payments[payment_id].amount
             payment == [d.payments[payment_id] EXCEPT
                           !.amount = IF "amount" \in update_data.fields
                                      THEN update_data.amount ELSE @,
                           !.transaction_id =
                               IF "transaction_id" \in update_data.fields
                               THEN update_data.transaction_id ELSE @]
             updated == [d.payments EXCEPT ![payment_id] = payment]
             moved == old_transaction_id # NULL
                      /\ old_transaction_id # payment.transaction_id
             after_old == IF moved
                          THEN WithPaid(d.transactions, old_transaction_id,
                                        d.transactions[old_transaction_id].paid_amount
                                            - old_amount)
                          ELSE d.transactions
             after_new == IF payment.transaction_id # NULL
                          THEN WithPaid(after_old, payment.transaction_id,
                                        TotalPaid(updated, payment.transaction_id))
                          ELSE after_old
         IN  [result |-> "ok", stage |-> "done",
              session |-> [d EXCEPT !.payments = updated, !.transactions = after_new]]

\* seeded fault: removing a payment leaves paid_amount as it was
PaidUnchanged(paid_amount, amount) == paid_amount

\* transaction.paid_amount -= payment.amount
PaidAfterRemove(paid_amount, amount) == paid_amount - amount

payments_remove(d, payment_id) ==
    IF ~PaymentFound(d, payment_id)
    THEN [result |-> "NotFoundError", stage |-> "payment", session |-> d]
    ELSE LET payment == d.payments[payment_id]
             now == d.clock + 1
         IN  [result |-> "ok", stage |-> "done",
              session |->
                [d EXCEPT
                  !.transactions =
                      IF payment.transaction_id = NULL THEN @
                      ELSE WithPaid(@, payment.transaction_id,
                                    PaidAfterRemove(
                                        @[payment.transaction_id].paid_amount,
                                        payment.amount)),
                  !.payments[payment_id].deleted_at = now,
                  !.clock = now]]

(***************************************************************************)
(* Requests.                                                               *)
(***************************************************************************)
Line(p, c, q) ==
    [product_id |-> p, container_id |-> c, quantity |-> q, unit_price |-> 1]

Request(c, its, m) ==
    [contact_id |-> c, items |-> its, tax_amount |-> m.tax_amount,
     discount_amount |-> m.discount_amount, paid_amount |-> m.paid_amount,
     payment_method |-> m.payment_method]

Unpaid == [tax_amount |-> 1, discount_amount |-> 0, paid_amount |-> 0, payment_method |-> None]

PaidCash == [tax_amount |-> 0, discount_amount |-> 1, paid_amount |-> 1, payment_method |-> "cash"]

PaidNoMethod == [tax_amount |-> 1, discount_amount |-> 0, paid_amount |-> 1, payment_method |-> None]

Discounted == [tax_amount |-> 0, discount_amount |-> 1, paid_amount |-> 0, payment_method |-> None]

\* stock requests: one or two lines, over two containers, with a line that names the
\* soft-deleted product and a line without a container
ItemLists ==
    {<<Line(1, 1, 1)>>, <<Line(1, 1, 2)>>, <<Line(1, 2, 1)>>,
     <<Line(1, 1, 2), Line(1, 1, 1)>>, <<Line(1, 1, 1), Line(1, 2, 1)>>,
     <<Line(2, 1, 1)>>, <<Line(1, NULL, 1)>>}

Requests ==
    {Request(c, its, m) : c \in ContactIds, its \in ItemLists,
                          m \in {Unpaid, PaidCash, PaidNoMethod}}

\* payment requests: one line, every way of paying on creation
PayRequests ==
    {Request(1, <<Line(1, 1, 1)>>, Unpaid),
     Request(1, <<Line(1, 1, 2)>>, PaidCash),
     Request(1, <<Line(1, 1, 1)>>, Discounted),
     Request(1, <<Line(1, 1, 1)>>, PaidNoMethod)}

PayPurchaseRequests ==
    {Request(1, <<Line(1, 1, 1)>>, Unpaid),
     Request(1, <<Line(1, 1, 1)>>, PaidNoMethod)}

\* requests that race: the same position, or the same new position
RaceRequests ==
    {Request(1, <<Line(1, 1, 1)>>, Unpaid),
     Request(1, <<Line(1, 2, 1)>>, Unpaid)}

Amounts == {1, 2}

PaymentDto(t, a, x) ==
    [transaction_id |-> t, amount |-> a, payment_method |-> "cash",
     description |-> x, category |-> x, type |-> x, contact_id |-> NULL]

PaymentDtos ==
    {PaymentDto(t, a, None) : t \in 1..MaxTx, a \in Amounts}
        \cup {PaymentDto(NULL, 1, None), PaymentDto(NULL, 1, "expense")}

UpdateDto(f, a, t) == [fields |-> f, amount |-> a, transaction_id |-> t]

UpdateDtos ==
    {UpdateDto({}, 1, NULL)}
        \cup {UpdateDto({"amount"}, a, NULL) : a \in Amounts}
        \cup {UpdateDto({"transaction_id"}, 1, t) : t \in 0..MaxTx}
        \cup {UpdateDto({"amount", "transaction_id"}, a, t) : a \in Amounts, t \in 0..MaxTx}

(***************************************************************************)
(* What is remembered of the last request.                                 *)
(***************************************************************************)
NoSnapshot == [cp |-> [k \in {} |-> 0], balance |-> [c \in {} |-> 0]]

Snapshot(d) ==
    [cp |-> [k \in Pairs |-> d.container_product[k].quantity],
     balance |-> [c \in DOMAIN d.contacts |-> d.contacts[c].balance]]

\* some line of the request lacks a container or asks for more than its row holds
LacksContainerOrStock(d, req) ==
    \E i \in Indices(req.items) :
        \/ req.items[i].container_id = NULL
        \/ LET key == <<req.items[i].product_id, req.items[i].container_id>>
           IN  /\ d.container_product[key].present
               /\ d.container_product[key].quantity < req.items[i].quantity

Handled(op, result, stage, tx, cond, snap) ==
    [op |-> op, result |-> result, stage |-> stage, tx |-> tx, cond |-> cond,
     snap |-> snap]

Idle == [op |-> "idle", unit |-> Failure("none", "none", EmptyWriteSet), cond |-> FALSE]

(***************************************************************************)
(* Initial state: contact 1 buys and sells, 2 is a customer, 3 a supplier, *)
(* 4 was soft-deleted; product 2 was soft-deleted; two units of product 1  *)
(* are in container 1.                                                     *)
(***************************************************************************)
InitContacts ==
    [c \in ContactIds |->
        [type |-> CASE c = 1 -> "both" [] c = 2 -> "customer" [] OTHER -> "supplier",
         balance |-> 0,
         deleted_at |-> IF c = 4 THEN 1 ELSE NULL]]

InitDb ==
    [contacts |-> InitContacts,
     products |-> [p \in ProductIds |-> [deleted_at |-> IF p = 2 THEN 1 ELSE NULL]],
     container_product |->
        [k \in Pairs |-> IF k = <<1, 1>>
                         THEN [present |-> TRUE, quantity |-> 2, deleted_at |-> NULL]
                         ELSE AbsentPosition],
     inventory_logs |-> <<>>,
     transactions |-> <<>>,
     transaction_items |-> <<>>,
     payments |-> <<>>,
     clock |-> 1]

Init ==
    /\ db = InitDb
    /\ last = Handled("none", "ok", "done", NULL, FALSE, NoSnapshot)
    /\ pending = [w \in Workers |-> Idle]

(***************************************************************************)
(* Requests handled one at a time: each action is a whole request, from    *)
(* the handler's first read to the commit or rollback of get_db_util.      *)
(***************************************************************************)
Created(op, unit, req) ==
    LET result == CreationResult(db, unit)
    IN  /\ db' = get_db_util(db, result, Flushed(db, unit.ws))
        /\ last' = Handled(op, result,
                           IF result = "IntegrityError" THEN "flush" ELSE unit.stage,
                           IF result = "ok" THEN Len(db.transactions) + 1 ELSE NULL,
                           op = "create_sale" /\ LacksContainerOrStock(db, req),
                           IF result = "ok" THEN Snapshot(db) ELSE NoSnapshot)

CreateSale(req) ==
    /\ Len(db.transactions) < MaxTx
    /\ req.paid_amount > 0 => Len(db.payments) < MaxPayments
    /\ Created("create_sale", create_sale(db, req), req)
    /\ UNCHANGED pending

CreatePurchase(req) ==
    /\ Len(db.transactions) < MaxTx
    /\ req.paid_amount > 0 => Len(db.payments) < MaxPayments
    /\ Created("create_purchase", create_purchase(db, req), req)
    /\ UNCHANGED pending

DeleteTransaction(transaction_id) ==
    LET unit == delete_transaction(db, transaction_id)
        right_after == /\ last.op \in {"create_sale", "create_purchase"}
                       /\ last.result = "ok"
                       /\ last.tx = transaction_id
    IN  /\ db' = get_db_util(db, unit.result, unit.session)
        /\ last' = Handled("delete_transaction", unit.result, unit.stage,
                           transaction_id, FALSE,
                           IF right_after /\ unit.result = "ok" THEN last.snap
                           ELSE NoSnapshot)
        /\ UNCHANGED pending

Answered(op, unit, tx) ==
    /\ db' = get_db_util(db, unit.result, unit.session)
    /\ last' = Handled(op, unit.result, unit.stage, tx, FALSE, NoSnapshot)
    /\ UNCHANGED pending

RecordPayment(transaction_id, amount) ==
    /\ Len(db.payments) < MaxPayments
    /\ Answered("record_payment", record_payment(db, transaction_id, amount, "cash"),
                transaction_id)

PaymentsCreate(dto) ==
    /\ Len(db.payments) < MaxPayments
    /\ Answered("payments_create", payments_create(db, dto), dto.transaction_id)

PaymentsUpdate(payment_id, update_data) ==
    Answered("payments_update", payments_update(db, payment_id, update_data), NULL)

PaymentsRemove(payment_id) ==
    Answered("payments_remove", payments_remove(db, payment_id), NULL)

\* the stock ledger: sales, purchases and their reversal
Next ==
    \/ \E req \in Requests : CreateSale(req)
    \/ \E req \in Requests : CreatePurchase(req)
    \/ \E t \in 1..MaxTx : DeleteTransaction(t)

Spec == Init /\ [][Next]_vars

\* the payment reconciler: transactions and every operation on their payments
PayNext ==
    \/ \E req \in PayRequests : CreateSale(req)
    \/ \E req \in PayPurchaseRequests : CreatePurchase(req)
    \/ \E t \in 1..MaxTx, a \in Amounts : RecordPayment(t, a)
    \/ \E dto \in PaymentDtos : PaymentsCreate(dto)
    \/ \E p \in 1..MaxPayments, u \in UpdateDtos : PaymentsUpdate(p, u)
    \/ \E p \in 1..MaxPayments : PaymentsRemove(p)

PaySpec == Init /\ [][PayNext]_vars

(***************************************************************************)
(* Two requests at once.  A creation handler reads everything it needs     *)
(* (contact, products, stock rows, the last transaction number) before its *)
(* first flush; the flush takes the store's write lock, which is held to   *)
(* the commit, so the writes of two handlers never interleave but the      *)
(* reads of one may precede the writes of the other.                       *)
(***************************************************************************)
Begin(w, op, unit) ==
    /\ pending[w].op = "idle"
    /\ Len(db.transactions) < MaxTx
    /\ pending' = [pending EXCEPT ![w] = [op |-> op, unit |-> unit, cond |-> FALSE]]
    /\ UNCHANGED <<db, last>>

BeginSale(w, req) == Begin(w, "create_sale", create_sale(db, req))

BeginPurchase(w, req) == Begin(w, "create_purchase", create_purchase(db, req))

\* the first flush and all that follows it, up to the commit or rollback
Commit(w) ==
    /\ pending[w].op # "idle"
    /\ LET unit == pending[w].unit
           result == CreationResult(db, unit)
       IN  /\ db' = get_db_util(db, result, Flushed(db, unit.ws))
           /\ last' = Handled(pending[w].op, result,
                              IF result = "IntegrityError" THEN "flush" ELSE unit.stage,
                              IF result = "ok" THEN Len(db.transactions) + 1 ELSE NULL,
                              FALSE, NoSnapshot)
    /\ pending' = [pending EXCEPT ![w] = Idle]

ConcNext ==
    \/ \E w \in Workers, req \in RaceRequests : BeginSale(w, req)
    \/ \E w \in Workers, req \in RaceRequests : BeginPurchase(w, req)
    \/ \E w \in Workers : Commit(w)
    \/ \E t \in 1..MaxTx : DeleteTransaction(t)

ConcSpec == Init /\ [][ConcNext]_vars

(***************************************************************************)
(* Two sales of the same position in flight.  A request reads the contact  *)
(* and the stock rows first; the number is generated and the rows are      *)
(* written later, from the objects loaded by the reads, in one write       *)
(* transaction of the database (WAL, one writer at a time, the other waits *)
(* up to busy_timeout).                                                    *)
(***************************************************************************)
SamePositionRequests ==
    {Request(c, <<Line(1, 1, q)>>, Unpaid) : c \in {1, 2}, q \in {1, 2}}

\* the unit of work with the number generated at write time
Numbered(unit, tn) ==
    [unit EXCEPT
       !.ws.transactions = [i \in Indices(@) |-> [@[i] EXCEPT !.transaction_number = tn]],
       !.ws.logs = [i \in Indices(@) |-> [@[i] EXCEPT !.note.number = tn]]]

\* validations and the stock fetch
ReadStock(w, req) == Begin(w, "create_sale", create_sale(db, req))

\* number generation, inserts, stock and balance updates, flush, commit
WriteSale(w) ==
    /\ pending[w].op = "create_sale"
    /\ LET unit == Numbered(pending[w].unit, GenerateTransactionNumber(db, "sale"))
           result == CreationResult(db, unit)
       IN  /\ db' = get_db_util(db, result, Flushed(db, unit.ws))
           /\ last' = Handled("create_sale", result,
                              IF result = "IntegrityError" THEN "flush" ELSE unit.stage,
                              IF result = "ok" THEN Len(db.transactions) + 1 ELSE NULL,
                              FALSE, NoSnapshot)
    /\ pending' = [pending EXCEPT ![w] = Idle]

RaceNext ==
    \/ \E w \in Workers, req \in SamePositionRequests : ReadStock(w, req)
    \/ \E w \in Workers : WriteSale(w)

RaceSpec == Init /\ [][RaceNext]_vars

(***************************************************************************)
(* Settlement: a transaction is created, paid in instalments through       *)
(* either service, and reversed.                                           *)
(***************************************************************************)
RecordAmounts == {0, 1, 2}

LinkedDtos == {PaymentDto(t, 1, None) : t \in 1..MaxTx}

SettleNext ==
    \/ \E req \in PayRequests : CreateSale(req)
    \/ \E req \in PayPurchaseRequests : CreatePurchase(req)
    \/ \E t \in 1..MaxTx, a \in RecordAmounts : RecordPayment(t, a)
    \/ \E dto \in LinkedDtos : PaymentsCreate(dto)
    \/ \E t \in 1..MaxTx : DeleteTransaction(t)

SettleSpec == Init /\ [][SettleNext]_vars

(***************************************************************************)
(* The ledger: transactions created on credit or partly paid, instalments  *)
(* recorded on them, and reversals, for contacts of every type.            *)
(***************************************************************************)
PartPaid == [tax_amount |-> 1, discount_amount |-> 0, paid_amount |-> 1, payment_method |-> "cash"]

LedgerRequests ==
    {Request(c, <<Line(1, 1, 1)>>, m) :
        c \in {1, 2, 3}, m \in {Unpaid, PartPaid, Discounted, PaidNoMethod}}
      \cup {Request(1, <<Line(1, 1, 2)>>, m) : m \in {Unpaid, PaidCash}}

LedgerNext ==
    \/ \E req \in LedgerRequests : CreateSale(req)
    \/ \E req \in LedgerRequests : CreatePurchase(req)
    \/ \E t \in 1..MaxTx, a \in RecordAmounts : RecordPayment(t, a)
    \/ \E t \in 1..MaxTx : DeleteTransaction(t)

LedgerSpec == Init /\ [][LedgerNext]_vars

(***************************************************************************)
(* The batch product lookup and the error it raises, with products being   *)
(* soft-deleted in between.                                                *)
(***************************************************************************)
MaxRemovals == 2

MaxIds == 3

\* HTTPException(status_code=404, detail=f"{resource_type} not found")
NotFoundError(resource_type, resource_id) ==
    [status_code |-> 404, detail |-> <<resource_type, "not found">>]

validate_products_exist(d, product_ids) ==
    LET requested == {product_ids[i] : i \in Indices(product_ids)}
        found_ids == {p \in requested \cap ProductIds : Live(d.products[p])}
        missing_ids == requested \ found_ids
    IN  IF product_ids = <<>> THEN [result |-> "ok", products |-> {}]
        ELSE IF Cardinality(found_ids) # Cardinality(requested)
        THEN [result |-> "NotFoundError",
              error |-> NotFoundError("Products", missing_ids)]
        ELSE [result |-> "ok", products |-> found_ids]

\* ProductService.remove: the product is looked up whether deleted or not
products_remove(d, product_id) ==
    IF product_id \notin ProductIds
    THEN [result |-> "NotFoundError", stage |-> "product", session |-> d]
    ELSE [result |-> "ok", stage |-> "done",
          session |-> [d EXCEPT !.products[product_id].deleted_at = d.clock + 1,
                                !.clock = d.clock + 1]]

\* lists of requested ids, the id after the last product included
IdLists == UNION {[1..n -> 1..MaxIds] : n \in 0..3}

LookupInit ==
    /\ db = [InitDb EXCEPT !.products = [p \in ProductIds |-> [deleted_at |-> NULL]]]
    /\ last = Handled("none", "ok", "done", NULL, FALSE, NoSnapshot)
    /\ pending = [w \in Workers |-> Idle]

ValidateProductsExist(product_ids) ==
    LET unit == validate_products_exist(db, product_ids)
    IN  /\ last' = [op |-> "validate_products_exist", result |-> unit.result,
                    ids |-> product_ids,
                    detail |-> IF unit.result = "ok" THEN <<>> ELSE unit.error.detail]
        /\ UNCHANGED <<db, pending>>

ProductsRemove(product_id) ==
    /\ db.clock <= MaxRemovals
    /\ Answered("products_remove", products_remove(db, product_id), NULL)

LookupNext ==
    \/ \E ids \in IdLists : ValidateProductsExist(ids)
    \/ \E p \in 1..MaxIds : ProductsRemove(p)

LookupSpec == LookupInit /\ [][LookupNext]_vars

(***************************************************************************)
(* A worked sale: ten units on the shelf, five of them sold at 100 each,   *)
(* with the tax given as 18 or as 90 and paid in full or not at all.       *)
(***************************************************************************)
PricedLine(p, c, q, price) ==
    [product_id |-> p, container_id |-> c, quantity |-> q, unit_price |-> price]

WorkedRequest(tax, paid, method) ==
    Request(1, <<PricedLine(1, 1, 5, 100)>>,
            [tax_amount |-> tax, discount_amount |-> 0, paid_amount |-> paid,
             payment_method |-> method])

WorkedRequests ==
    {WorkedRequest(tax, paid, method) :
        tax \in {18, 90}, paid \in {0, 518, 590}, method \in {"cash", None}}

WorkedInit ==
    /\ db = [InitDb EXCEPT !.container_product[<<1, 1>>].quantity = 10]
    /\ last = Handled("none", "ok", "done", NULL, FALSE, NoSnapshot)
    /\ pending = [w \in Workers |-> Idle]

WorkedNext ==
    \/ \E req \in WorkedRequests : CreateSale(req)
    \/ \E t \in 1..MaxTx : DeleteTransaction(t)

WorkedSpec == WorkedInit /\ [][WorkedNext]_vars

(***************************************************************************)
(* Contacts edited while the ledger runs.                                  *)
(***************************************************************************)
\* ContactsService.update: every field of update_data is set on the contact
contacts_update(d, contact_id, update_data) ==
    IF ~ContactFound(d, contact_id)
    THEN [result |-> "NotFoundError", stage |-> "contact", session |-> d]
    ELSE [result |-> "ok", stage |-> "done",
          session |->
            [d EXCEPT !.contacts[contact_id] =
                [f \in DOMAIN @ |-> IF f \in DOMAIN update_data THEN update_data[f]
                                    ELSE @[f]]]]

\* UpdateContactDto with the fields that were set: none, type, balance, both
ContactUpdates ==
    {[f \in {} |-> NULL], [type |-> "customer"], [balance |-> 5],
     [type |-> "both", balance |-> 0]}

ContactsUpdate(contact_id, update_data) ==
    Answered("contacts_update", contacts_update(db, contact_id, update_data), NULL)

ContactNext ==
    \/ \E req \in PayRequests : CreateSale(req)
    \/ \E t \in 1..MaxTx : DeleteTransaction(t)
    \/ \E c \in {1, 4}, u \in ContactUpdates : ContactsUpdate(c, u)

ContactSpec == Init /\ [][ContactNext]_vars

(***************************************************************************)
(* ContainerProductService.set_products_in_container: the quantities of a  *)
(* container are set to what was counted.                                  *)
(***************************************************************************)
MaxLogs == 3

MaxClock == 3

\* InventoryLog(container_id, product_id, quantity, action): no note
CountLog(item, container_id, action, quantity) ==
    [product_id |-> item.productId,
     container_id |-> container_id,
     action |-> action,
     quantity |-> quantity,
     note |-> [kind |-> None, number |-> FormatNumber(None, 0), old |-> NULL,
               new |-> NULL]]

Abs(n) == IF n < 0 THEN -n ELSE n

\* the loop over payload.items from item i on; existing is what was fetched
\* before the loop
RECURSIVE SetItems(_, _, _, _, _, _)
SetItems(acc, existing, container_id, items, i, now) ==
    IF i > Len(items) \/ acc.result # "ok" THEN acc
    ELSE LET item == items[i]
             key == <<item.productId, container_id>>
             record == acc.cp[key]
             delta == item.quantity - record.quantity
             log == IF delta # 0
                    THEN <<CountLog(item, container_id,
                                    IF delta > 0 THEN "added" ELSE "removed",
                                    Abs(delta))>>
                    ELSE <<>>
         IN  IF item.quantity < 0
             THEN [acc EXCEPT !.result = "ValidationError"]
             ELSE IF key \in existing
             THEN SetItems(
                      [acc EXCEPT
                         !.cp[key] = IF item.quantity = 0
                                     THEN [record EXCEPT !.deleted_at = now]
                                     ELSE [record EXCEPT !.quantity = item.quantity,
                                                         !.deleted_at = NULL],
                         !.logs = @ \o log,
                         !.stamped = @ \/ item.quantity = 0],
                      existing, container_id, items, i + 1, now)
             ELSE IF item.quantity = 0
             THEN SetItems(acc, existing, container_id, items, i + 1, now)
             ELSE SetItems(
                      [acc EXCEPT
                         !.cp[key] = [present |-> TRUE, quantity |-> item.quantity,
                                      deleted_at |-> NULL],
                         !.logs = Append(@, CountLog(item, container_id, "added",
                                                     item.quantity)),
                         !.created = @ \cup {key},
                         !.twice = @ \/ key \in acc.created],
                      existing, container_id, items, i + 1, now)

set_products_in_container(d, payload) ==
    LET existing == {k \in Pairs : k[2] = payload.containerId
                                   /\ d.container_product[k].present}
        now == d.clock + 1
        done == SetItems([result |-> "ok", cp |-> d.container_product, logs |-> <<>>,
                          created |-> {}, twice |-> FALSE, stamped |-> FALSE],
                         existing, payload.containerId, payload.items, 1, now)
    IN  IF done.result # "ok"
        THEN [result |-> done.result, stage |-> "quantity", session |-> d]
        ELSE IF done.twice
        THEN [result |-> "IntegrityError", stage |-> "flush", session |-> d]
        ELSE [result |-> "ok", stage |-> "done",
              session |-> [d EXCEPT !.container_product = done.cp,
                                    !.inventory_logs = @ \o done.logs,
                                    !.clock = IF done.stamped THEN now ELSE @]]

Counted(p, q) == [productId |-> p, quantity |-> q]

\* CreateContainerProductDto: one product counted, or product 1 counted twice
Payloads ==
    {[containerId |-> c, items |-> <<Counted(1, q)>>] : c \in ContainerIds, q \in -1..2}
        \cup {[containerId |-> 2, items |-> <<Counted(1, 1), Counted(1, q)>>] :
                  q \in 0..1}

StockRequests ==
    {Request(1, its, Unpaid) :
        its \in {<<Line(1, 1, 1)>>, <<Line(1, 1, 2)>>, <<Line(1, 2, 1)>>}}

SetProductsInContainer(payload) ==
    /\ Len(db.inventory_logs) < MaxLogs
    /\ db.clock < MaxClock
    /\ Answered("set_products_in_container", set_products_in_container(db, payload),
                NULL)

StockNext ==
    \/ \E req \in StockRequests : CreateSale(req)
    \/ \E req \in StockRequests : CreatePurchase(req)
    \/ \E t \in 1..MaxTx : DeleteTransaction(t)
    \/ \E payload \in Payloads : SetProductsInContainer(payload)

StockSpec == Init /\ [][StockNext]_vars

\* stock counts only: one product of one container counted again and again
CountPayloads == {payload \in Payloads : Len(payload.items) = 1}

CountNext == \E payload \in CountPayloads : SetProductsInContainer(payload)

CountSpec == Init /\ [][CountNext]_vars

(***************************************************************************)
(* Properties.                                                             *)
(***************************************************************************)
LivePositions == {k \in Pairs : db.container_product[k].present /\ Live(db.container_product[k])}

\* C1: after any sequence of create_sale, create_purchase and
\* delete_transaction, every live stock position has quantity >= 0.
StockNonNegative == \A k \in LivePositions : db.container_product[k].quantity >= 0

\* C2: delete_transaction run immediately after the successful creation of
\* the same transaction restores every position quantity and every contact
\* balance to its value before the creation.
LedgerReversible ==
    (/\ last.op = "delete_transaction"
     /\ last.result = "ok"
     /\ last.snap # NoSnapshot) => Snapshot(db) = last.snap

\* a purchase with an outstanding balance was created, then deleted at once
ReversedAtOnce ==
    /\ last.op = "delete_transaction"
    /\ last.result = "ok"
    /\ last.snap # NoSnapshot
    /\ db.transactions[last.tx].type = "purchase"
    /\ db.transactions[last.tx].total_amount > db.transactions[last.tx].paid_amount
    /\ ItemsOf(db, last.tx) # {}

LivePaymentsOf(t) == {i \in PaymentsOf(db, t) : Live(db.payments[i])}

RECURSIVE AmountOver(_)
AmountOver(ps) ==
    IF ps = {} THEN 0
    ELSE LET i == CHOOSE i \in ps : TRUE
         IN  db.payments[i].amount + AmountOver(ps \ {i})

\* C3: for every transaction, paid_amount equals the sum of the amounts of
\* its non-deleted linked payments, after any sequence of record_payment and
\* payment create, update and remove.
PaymentConsistency ==
    \A t \in Indices(db.transactions) :
        db.transactions[t].paid_amount = AmountOver(LivePaymentsOf(t))

\* a payment was removed, or moved or changed, and its transaction still has
\* another live payment
PaymentTakenAway ==
    /\ last.op \in {"payments_remove", "payments_update"}
    /\ last.result = "ok"
    /\ \E i \in Indices(db.payments) :
          /\ ~Live(db.payments[i])
          /\ db.payments[i].transaction_id # NULL
          /\ LivePaymentsOf(db.payments[i].transaction_id) # {}

\* C4: the stored payment_status of every transaction is the status
\* recomputed from its paid_amount and total_amount: unpaid when nothing is
\* paid, paid when paid_amount >= total_amount, partial otherwise.
StatusDeterminism ==
    \A t \in Indices(db.transactions) :
        LET trx == db.transactions[t]
        IN  trx.payment_status =
                IF trx.paid_amount = 0 THEN "unpaid"
                ELSE IF trx.paid_amount >= trx.total_amount THEN "paid"
                ELSE "partial"

\* C5: no two non-deleted transactions of the same type share a transaction
\* number, also when two creations read the same last number before either
\* commits.
UniqueNumbers ==
    \A i, j \in Indices(db.transactions) :
        (/\ i # j
         /\ Live(db.transactions[i])
         /\ Live(db.transactions[j])
         /\ db.transactions[i].type = db.transactions[j].type)
            => db.transactions[i].transaction_number
                    # db.transactions[j].transaction_number

\* two creations generated the same number; the second to flush was refused
\* and the first one's transaction is stored
DuplicateRefused ==
    /\ last.result = "IntegrityError"
    /\ \E t \in Indices(db.transactions) : Live(db.transactions[t])

LinesWithContainer(d, t) ==
    Cardinality({i \in ItemsOf(d, t) : d.transaction_items[i].container_id # NULL})

\* the last movement appended for each position records its present quantity
AfterMatches(before, after) ==
    \A n \in (Len(before.inventory_logs) + 1)..Len(after.inventory_logs) :
        LET log == after.inventory_logs[n]
            key == <<log.product_id, log.container_id>>
        IN  (\A m \in (n + 1)..Len(after.inventory_logs) :
                <<after.inventory_logs[m].product_id,
                  after.inventory_logs[m].container_id>> # key)
              => log.note.new = after.container_product[key].quantity

\* C6: every successful create_sale, create_purchase and delete_transaction
\* appends as many inventory log rows as the transaction has lines with a
\* container, and the last row written for a position records the quantity
\* the position then has.
MovementCompleteness ==
    [][(/\ last'.op \in {"create_sale", "create_purchase", "delete_transaction"}
        /\ last'.result = "ok")
         => /\ Len(db'.inventory_logs) - Len(db.inventory_logs)
                  = LinesWithContainer(db', last'.tx)
            /\ AfterMatches(db, db')]_vars

\* C7: a create_sale or create_purchase that fails at any step leaves no
\* row behind and every quantity and balance as it was.
FailureRollsBack ==
    [][(/\ last'.op \in {"create_sale", "create_purchase"}
        /\ last'.result # "ok") => db' = db]_vars

\* a creation failed on the payment-method check, after its writes
FailedAfterWrites ==
    /\ last.op \in {"create_sale", "create_purchase"}
    /\ last.result = "ValidationError"
    /\ last.stage = "payment_method"

\* reversing purchase t would take some position below zero
WouldGoNegative(d, t) ==
    /\ TransactionFound(d, t)
    /\ d.transactions[t].type = "purchase"
    /\ \E i \in ItemsOf(d, t) :
          LET item == d.transaction_items[i]
              key == <<item.product_id, item.container_id>>
          IN  /\ item.container_id # NULL
              /\ d.container_product[key].present
              /\ d.container_product[key].quantity - item.quantity < 0

\* C8: delete_transaction of a purchase whose stock has since been sold fails
\* with a ValidationError and changes nothing.
NegativeReversalRejected ==
    [][(/\ last'.op = "delete_transaction"
        /\ WouldGoNegative(db, last'.tx))
         => /\ last'.result = "ValidationError"
            /\ db' = db]_vars

\* C9: every transaction has total_amount = subtotal + tax_amount -
\* discount_amount and 0 <= paid_amount <= total_amount.
AmountsInRange ==
    \A t \in Indices(db.transactions) :
        LET trx == db.transactions[t]
        IN  /\ trx.total_amount = trx.subtotal + trx.tax_amount - trx.discount_amount
            /\ 0 <= trx.paid_amount
            /\ trx.paid_amount <= trx.total_amount

\* C10 as stated: create_sale fails with a ValidationError and changes no
\* state whenever a line lacks a container or its position holds less than
\* the line asks for, and it succeeds only if no line does.
StockCheckValidationError ==
    [][last'.op = "create_sale"
         => /\ last'.cond => (last'.result = "ValidationError" /\ db' = db)
            /\ last'.result = "ok" => ~last'.cond]_vars

\* C10: create_sale fails and changes no state whenever a line lacks a
\* container or its position holds less than the line asks for; the failure
\* is a ValidationError unless the contact or a product was not found, which
\* is checked first and raises NotFoundError; it succeeds only if no line
\* lacks a container or stock.
StockCheckFails ==
    [][(last'.op = "create_sale" /\ last'.cond)
         => /\ last'.result # "ok"
            /\ db' = db
            /\ \/ last'.result = "ValidationError"
               \/ /\ last'.result = "NotFoundError"
                  /\ last'.stage \in {"contact", "products"}]_vars

\* a sale was refused by the per-line stock check itself
RefusedForStock ==
    /\ last.op = "create_sale"
    /\ last.cond
    /\ last.result = "ValidationError"
    /\ last.stage = "stock"

\* C11: record_payment on an existing transaction fails with a
\* ValidationError and changes nothing whenever nothing remains to be paid,
\* or the amount exceeds the remainder, or the amount is not positive;
\* otherwise it succeeds.
PaymentRefusal ==
    [][\A t \in 1..MaxTx, a \in RecordAmounts :
          (RecordPayment(t, a) /\ TransactionFound(db, t))
            => LET trx == db.transactions[t]
                   remaining == trx.total_amount - trx.paid_amount
               IN  IF remaining <= 0 \/ a > remaining \/ a <= 0
                   THEN last'.result = "ValidationError" /\ db' = db
                   ELSE last'.result = "ok"]_vars

\* a payment larger than the remainder of a partly paid transaction was refused
RefusedAsExcessive ==
    /\ last.op = "record_payment"
    /\ last.result = "ValidationError"
    /\ last.stage = "exceeds"
    /\ db.transactions[last.tx].paid_amount > 0

BalanceAfter(c, trx, change) ==
    db.contacts[c].balance + (IF c = trx.contact_id THEN change ELSE 0)

\* C12: a successful create_sale raises the counterparty's balance by exactly
\* total_amount - paid_amount, a successful create_purchase lowers it by
\* exactly that much, and no other contact's balance changes.
BalanceOnCreation ==
    [][(/\ last'.op \in {"create_sale", "create_purchase"}
        /\ last'.result = "ok")
         => LET trx == db'.transactions[last'.tx]
                outstanding == trx.total_amount - trx.paid_amount
            IN  \A c \in ContactIds :
                    db'.contacts[c].balance =
                        BalanceAfter(c, trx, IF trx.type = "sale" THEN outstanding
                                             ELSE -outstanding)]_vars

\* a purchase with an amount outstanding was created: the supplier is owed
PurchaseOnCredit ==
    /\ last.op = "create_purchase"
    /\ last.result = "ok"
    /\ db.transactions[last.tx].total_amount > db.transactions[last.tx].paid_amount
    /\ db.contacts[db.transactions[last.tx].contact_id].balance < 0

\* C13: a successful record_payment of amount a lowers the counterparty's
\* balance by a on a sale and raises it by a on a purchase, together with
\* the insert of the payment and the update of paid_amount.
PaymentMovesBalance ==
    [][\A t \in 1..MaxTx, a \in RecordAmounts :
          (RecordPayment(t, a) /\ last'.result = "ok")
            => LET trx == db.transactions[t]
                   n == Len(db.payments) + 1
               IN  /\ \A c \in ContactIds :
                        db'.contacts[c].balance =
                            BalanceAfter(c, trx, IF trx.type = "sale" THEN -a ELSE a)
                   /\ Len(db'.payments) = n
                   /\ db'.payments[n].transaction_id = t
                   /\ db'.payments[n].amount = a
                   /\ db'.transactions[t].paid_amount = trx.paid_amount + a]_vars

\* an instalment was paid to a supplier
PurchaseInstalment ==
    /\ last.op = "record_payment"
    /\ last.result = "ok"
    /\ db.transactions[last.tx].type = "purchase"

SoftDeletedTogether ==
    [][\A t \in 1..MaxTx :
          (DeleteTransaction(t) /\ last'.result = "ok")
            => LET now == db'.transactions[t].deleted_at
               IN  /\ now # NULL
                   /\ Len(db'.transactions) = Len(db.transactions)
                   /\ Len(db'.transaction_items) = Len(db.transaction_items)
                   /\ Len(db'.payments) = Len(db.payments)
                   /\ \A i \in ItemsOf(db, t) : db'.transaction_items[i].deleted_at = now
                   /\ \A i \in PaymentsOf(db, t) :
                         /\ db'.payments[i].deleted_at = now
                         /\ db'.payments[i].transaction_id = t]_vars

\* a transaction with two payments was deleted
DeletedWithPayments ==
    /\ last.op = "delete_transaction"
    /\ last.result = "ok"
    /\ Cardinality(PaymentsOf(db, last.tx)) = 2
    /\ ItemsOf(db, last.tx) # {}

\* what the contacts owe on their live transactions: outstanding amounts of
\* sales less those of purchases
RECURSIVE Owed(_, _, _)
Owed(d, c, t) ==
    IF t = 0 THEN 0
    ELSE LET trx == d.transactions[t]
             outstanding == trx.total_amount - trx.paid_amount
         IN  Owed(d, c, t - 1)
               + (IF trx.contact_id # c \/ ~Live(trx) THEN 0
                  ELSE IF trx.type = "sale" THEN outstanding ELSE -outstanding)

\* C16: a successful PaymentsService.update or remove of a linked payment
\* leaves paid_amount equal to the sum of the live linked payments and moves
\* the contact's balance by the change in the outstanding amount.
PaymentEditMovesBalance ==
    [][(/\ last'.op \in {"payments_update", "payments_remove"}
        /\ last'.result = "ok")
         => /\ \A t \in Indices(db'.transactions) :
                  db'.transactions[t].paid_amount = TotalPaid(db'.payments, t)
            /\ \A c \in ContactIds :
                  db'.contacts[c].balance - db.contacts[c].balance
                      = Owed(db', c, Len(db'.transactions))
                          - Owed(db, c, Len(db.transactions))]_vars

\* the ids a message names
Named(detail) == {p \in 1..MaxIds : \E i \in DOMAIN detail : detail[i] = ToString(p)}

\* C17: the NotFoundError of validate_products_exist reports every requested
\* id that is missing or soft-deleted.
MissingIdsReported ==
    (/\ last.op = "validate_products_exist"
     /\ last.result = "NotFoundError")
        => \A i \in Indices(last.ids) :
              (last.ids[i] \notin ProductIds \/ ~Live(db.products[last.ids[i]]))
                  => last.ids[i] \in Named(last.detail)

\* C18: a sale of 5 units at unit price 100 from a position holding 10,
\* with tax 18, discount 0 and 590 paid, succeeds with total_amount 590 and
\* status paid, leaves 5 in the position, appends one inventory log with
\* action "sale", quantity 5 and a note of 10 -> 5, leaves the contact's
\* balance unchanged and creates one payment of 590.
WorkedSale ==
    [][(/\ CreateSale(WorkedRequest(18, 590, "cash"))
        /\ db.container_product[<<1, 1>>].quantity = 10)
         => LET n == Len(db.inventory_logs) + 1
                k == Len(db.payments) + 1
            IN  /\ last'.result = "ok"
                /\ db'.transactions[last'.tx].total_amount = 590
                /\ db'.transactions[last'.tx].payment_status = "paid"
                /\ db'.container_product[<<1, 1>>].quantity = 5
                /\ Len(db'.inventory_logs) = n
                /\ db'.inventory_logs[n].action = "sale"
                /\ db'.inventory_logs[n].quantity = 5
                /\ db'.inventory_logs[n].note.old = 10
                /\ db'.inventory_logs[n].note.new = 5
                /\ db'.contacts = db.contacts
                /\ Len(db'.payments) = k
                /\ db'.payments[k].amount = 590]_vars

LedgerOperations ==
    {"create_sale", "create_purchase", "record_payment", "delete_transaction"}

\* C19: a contact's balance changes only in the ledger operations, which
\* go through update_balance; no other operation, ContactsService.update in
\* particular, assigns it.
BalanceOnlyByLedger ==
    [][\A c \in ContactIds :
          db'.contacts[c].balance # db.contacts[c].balance
              => last'.op \in LedgerOperations]_vars

StockOperations ==
    {"create_sale", "create_purchase", "delete_transaction",
     "set_products_in_container"}

\* C20: after a successful stock-changing operation a position whose
\* quantity became 0 is soft-deleted, and a soft-deleted position whose
\* quantity rose to more than 0 is live again.
ZeroIsSoftDeleted ==
    [][(last'.op \in StockOperations /\ last'.result = "ok")
         => \A k \in Pairs :
               LET old == db.container_product[k]
                   new == db'.container_product[k]
               IN  /\ (new.present /\ new # old /\ new.quantity = 0) => ~Live(new)
                   /\ (old.present /\ ~Live(old) /\ new.quantity > old.quantity)
                         => Live(new)]_vars

\* C21: every inventory log row stores the size of the quantity change as a
\* positive number, an action among sale, purchase, added and removed, and
\* a note with the old and the new quantity.
MovementShape ==
    \A n \in Indices(db.inventory_logs) :
        LET log == db.inventory_logs[n]
        IN  /\ log.quantity > 0
            /\ log.action \in {"sale", "purchase", "added", "removed"}
            /\ log.note.kind # None
            /\ Abs(log.note.new - log.note.old) = log.quantity

\* what can be taken from a position: nothing when it is absent or soft-deleted
OnHand(d, k) ==
    IF d.container_product[k].present /\ Live(d.container_product[k])
    THEN d.container_product[k].quantity
    ELSE 0

LogsOf(d, k) ==
    {n \in Indices(d.inventory_logs) :
        <<d.inventory_logs[n].product_id, d.inventory_logs[n].container_id>> = k}

\* C22: a set_products_in_container call that changes what is on hand of a
\* pair appends exactly one inventory log for it, with the size of the change
\* and action added or removed; a call that does not change it appends none.
CountIsLogged ==
    [][(last'.op = "set_products_in_container" /\ last'.result = "ok")
         => \A k \in Pairs :
               LET change == OnHand(db', k) - OnHand(db, k)
                   appended == LogsOf(db', k) \ LogsOf(db, k)
               IN  IF change = 0 THEN appended = {}
                   ELSE /\ Cardinality(appended) = 1
                        /\ \A n \in appended :
                              /\ db'.inventory_logs[n].quantity = Abs(change)
                              /\ db'.inventory_logs[n].action =
                                    IF change > 0 THEN "added" ELSE "removed"]_vars

\* C23: handled one after another, creations and deletions allocate numbers of
\* the form SALE-NNNN / PUR-NNNN (zero-padded to four digits) whose numeric
\* part is above that of every stored transaction of the type, live or
\* soft-deleted: the number the generator would hand out next is always fresh
\* and the stored numbers of a type rise with the id.
NumbersNeverReused ==
    /\ \A type \in {"sale", "purchase"} :
          LET tn == GenerateTransactionNumber(db, type)
          IN  /\ tn.prefix = (IF type = "sale" THEN "SALE" ELSE "PUR")
              /\ Len(tn.digits) >= 4
              /\ \A i \in Indices(db.transactions) :
                    db.transactions[i].type = type
                      => ParseNumber(tn) > ParseNumber(db.transactions[i].transaction_number)
    /\ \A i, j \in Indices(db.transactions) :
          (i < j /\ db.transactions[i].type = db.transactions[j].type)
            => /\ ParseNumber(db.transactions[i].transaction_number)
                    < ParseNumber(db.transactions[j].transaction_number)
               /\ db.transactions[j].transaction_number.prefix
                    = (IF db.transactions[j].type = "sale" THEN "SALE" ELSE "PUR")
               /\ Len(db.transactions[j].transaction_number.digits) >= 4

\* a transaction was created after an earlier one of its type was deleted
CreatedAfterDeletion ==
    /\ last.op \in {"create_sale", "create_purchase"}
    /\ last.result = "ok"
    /\ \E i \in Indices(db.transactions) :
          /\ i < last.tx
          /\ db.transactions[i].type = db.transactions[last.tx].type
          /\ db.transactions[i].deleted_at # NULL

\* the units sold from position k by the stored, live transactions
RECURSIVE SoldFrom(_, _, _)
SoldFrom(d, k, n) ==
    IF n = 0 THEN 0
    ELSE SoldFrom(d, k, n - 1)
           + (IF /\ <<d.transaction_items[n].product_id,
                      d.transaction_items[n].container_id>> = k
                 /\ d.transactions[d.transaction_items[n].transaction_id].type = "sale"
                 /\ d.transactions[d.transaction_items[n].transaction_id].deleted_at = NULL
              THEN d.transaction_items[n].quantity ELSE 0)

\* C24: sales of the same position that run concurrently are serialized: the
\* quantity left is the initial quantity minus the quantities of the sales
\* that committed, and is never negative.
SalesSerialized ==
    \A k \in Pairs :
        /\ db.container_product[k].quantity
              = InitDb.container_product[k].quantity
                  - SoldFrom(db, k, Len(db.transaction_items))
        /\ db.container_product[k].quantity >= 0

\* C25: in create_sale and create_purchase every validation check comes before
\* the first write: a creation that is refused by a check has written nothing.
ValidationBeforeWrites ==
    [][\A req \in Requests :
         /\ (CreateSale(req) /\ last'.result \in {"NotFoundError", "ValidationError"})
               => create_sale(db, req).ws = EmptyWriteSet
         /\ (CreatePurchase(req) /\ last'.result \in {"NotFoundError", "ValidationError"})
               => create_purchase(db, req).ws = EmptyWriteSet]_vars

\* C26: the status rule of creation and the status rule of the payment
\* operations give the same status for the amounts of every stored transaction.
StatusRulesAgree ==
    \A i \in Indices(db.transactions) :
        CreationStatus(db.transactions[i].paid_amount, db.transactions[i].total_amount)
          = RecalculatedStatus(db.transactions[i].paid_amount,
                               db.transactions[i].total_amount)

\* the units the lines of a request take from position k
AskedFrom(items, k) ==
    SumSeq([i \in Indices(items) |->
              IF <<items[i].product_id, items[i].container_id>> = k
              THEN items[i].quantity ELSE 0])

\* C27: a sale whose lines name the same position more than once is accepted
\* only if the sum of those lines is within the position's quantity, and it
\* leaves the prior quantity minus that sum, which is not negative.
RepeatedLinesSummed ==
    [][\A req \in Requests :
         (CreateSale(req) /\ last'.result = "ok")
           => \A k \in Pairs :
                 /\ AskedFrom(req.items, k) <= db.container_product[k].quantity
                 /\ db'.container_product[k].quantity
                       = db.container_product[k].quantity - AskedFrom(req.items, k)
                 /\ db'.container_product[k].quantity >= 0]_vars

\* C28: a position soft-deleted by a stock count of 0 holds nothing to sell:
\* a sale from it is refused, and a purchase of q units into it leaves
\* exactly q units on hand.
SoftDeletedHoldsNothing ==
    [][\A req \in StockRequests, k \in Pairs :
         (/\ db.container_product[k].present
          /\ ~Live(db.container_product[k])
          /\ AskedFrom(req.items, k) > 0)
           => /\ CreateSale(req) => last'.result # "ok"
              /\ (CreatePurchase(req) /\ last'.result = "ok")
                    => OnHand(db', k) = AskedFrom(req.items, k)]_vars

\* C29: after any sequence of create_sale, create_purchase, record_payment
\* and delete_transaction, every contact's balance is its initial balance
\* plus the outstanding amounts of its live sales less the outstanding
\* amounts of its live purchases.
BalanceIsOutstanding ==
    \A c \in DOMAIN db.contacts :
        db.contacts[c].balance
          = InitContacts[c].balance + Owed(db, c, Len(db.transactions))

\* a transaction was deleted after two instalments had been recorded on it,
\* with an amount still outstanding, and the contact owes on another one
DeletedAfterPayment ==
    /\ last.op = "delete_transaction"
    /\ last.result = "ok"
    /\ Cardinality(PaymentsOf(db, last.tx)) = 2
    /\ db.transactions[last.tx].paid_amount > 0
    /\ db.transactions[last.tx].paid_amount < db.transactions[last.tx].total_amount
    /\ db.contacts[db.transactions[last.tx].contact_id].balance # 0

\* C30: delete_transaction and record_payment on a soft-deleted transaction
\* fail with NotFoundError and change nothing.
DeletedIsNotFound ==
    [][\A t \in Indices(db.transactions) :
         ~Live(db.transactions[t])
           => /\ DeleteTransaction(t) => (last'.result = "NotFoundError" /\ db' = db)
              /\ \A a \in RecordAmounts :
                    RecordPayment(t, a) => (last'.result = "NotFoundError" /\ db' = db)]_vars

\* deletion was asked again for a transaction already soft-deleted
DeletedTwice ==
    /\ last.op = "delete_transaction"
    /\ last.result = "NotFoundError"
    /\ last.tx \in Indices(db.transactions)
    /\ ~Live(db.transactions[last.tx])
====
